---- MODULE Spec2Model ----
(***************************************************************************)
(* Waze travel time sensor (homeassistant/components/waze_travel_time/     *)
(* sensor.py): the sensor entity WazeTravelTime, its data object           *)
(* WazeTravelTimeData, and the two triggers that run WazeTravelTime.update *)
(* (first_update on the executor, and the host's periodic poll).           *)
(*                                                                         *)
(* update() runs on an executor thread while the host's event loop reads   *)
(* native_value / extra_state_attributes and changes entity states and     *)
(* options, so every statement of update() that touches shared state is a  *)
(* step of its own.                                                        *)
(*                                                                         *)
(* Nullable Python values are None (<<>>) or Some(x) (<<x>>).  Durations   *)
(* are tenths of a minute, distances thousandths of the unit (km or mi).   *)
(* Strings that are searched (route names, filters) are sequences of       *)
(* characters; opaque strings (addresses, coordinates) are TLA+ strings.   *)
(***************************************************************************)
EXTENDS Integers, Sequences, FiniteSets, TLC

VARIABLES
    coreState,            \* hass.state
    listening,            \* first_update is registered for EVENT_HOMEASSISTANT_STARTED
    added,                \* async_added_to_hass has run
    polling,              \* the host polls the entity every SCAN_INTERVAL
    states,               \* hass.states.get(EntityId): None or Some(state object)
    options,              \* config_entry.options
    originEntityId,       \* WazeTravelTime._origin_entity_id
    destinationEntityId,  \* WazeTravelTime._destination_entity_id
    origin,               \* WazeTravelTimeData.origin
    destination,          \* WazeTravelTimeData.destination
    duration,             \* WazeTravelTimeData.duration
    distance,             \* WazeTravelTimeData.distance
    route,                \* WazeTravelTimeData.route
    pc,                   \* per job: the statement of update() it is about to run
    found,                \* per job: what the find_coordinates of the `if` returned
    opts,                 \* per job: the options update() grabbed (lines 215-225)
    params,               \* per job: the origin/destination given to WazeRouteCalculator
    routes,               \* per job: the dict calc_all_routes_info returned
    selected,             \* per job: the local `route` with its routes[route] pair
    served,               \* history: the params of the call whose duration is stored
    seen                  \* history: per job, the entity's locations during its refresh

vars == <<coreState, listening, added, polling, states, options,
          originEntityId, destinationEntityId,
          origin, destination, duration, distance, route,
          pc, found, opts, params, routes, selected, served, seen>>

None == <<>>
Some(x) == <<x>>

\* The two callers of WazeTravelTime.update: the executor job of first_update and
\* the host's periodic update.
Jobs == {"first", "poll"}

-----------------------------------------------------------------------------
(* Strings: str.lower and the substring test `a in b`.                      *)

Lower(c) == CASE c = "A" -> "a" [] c = "B" -> "b" [] c = "R" -> "r" [] OTHER -> c

LowerStr(s) == [i \in 1..Len(s) |-> Lower(s[i])]

\* Python's `needle in hay` on strings.
Contains(hay, needle) ==
    \E i \in 1..(Len(hay) - Len(needle) + 1) :
        SubSeq(hay, i, i + Len(needle) - 1) = needle

-----------------------------------------------------------------------------
(* Inputs.                                                                  *)

EntityId == "device_tracker.car"
OriginLiteral == "12 Main St"
DestinationLiteral == "near zone.work"

\* re.compile(ENTITY_ID_PATTERN).fullmatch(s) on the configured strings.
FullMatchEntityId(s) == s = EntityId

\* State objects of the referenced entity: a tracker with coordinates
\* (attributes latitude/longitude) and a sensor holding an address.
EntityStates ==
    { [coords |-> Some("52.1,4.3"), state |-> "home"],
      [coords |-> None,             state |-> "5 Dock Rd"] }

RouteA == [name |-> <<"R", "A">>, duration |-> 105, distance |-> 12000]
RouteB == [name |-> <<"R", "B">>, duration |-> 86,  distance |-> 9000]
RouteZ == [name |-> <<"a", "b">>, duration |-> 0,   distance |-> 0]
Routes == {RouteA, RouteB, RouteZ}

\* The most routes one answer of the routing engine holds.
MaxRoutes == 2

\* What calc_all_routes_info returns: a dict (no key twice), in its insertion
\* order.
Responses ==
    UNION { { rs \in [1..n -> Routes] : \A i, j \in 1..n : rs[i] = rs[j] => i = j }
            : n \in 0..MaxRoutes }

\* The answers drawn where two refreshes may overlap.
FewResponses == { <<RouteA, RouteB>>, <<RouteZ>>, <<>> }

Metric == "metric"
CONF_UNIT_SYSTEM_IMPERIAL == "imperial"

OptionSets ==
    { [incl |-> None,            excl |-> None,            units |-> Metric],
      [incl |-> Some(<<"B">>),   excl |-> None,            units |-> CONF_UNIT_SYSTEM_IMPERIAL],
      [incl |-> None,            excl |-> Some(<<"a">>),   units |-> Metric],
      [incl |-> Some(<<"r">>),   excl |-> Some(<<"b">>),   units |-> Metric],
      [incl |-> Some(<<>>),      excl |-> Some(<<"A", "B">>), units |-> Metric] }

NoOpts == [incl |-> None, excl |-> None, units |-> Metric]
NoParams == <<None, None>>

-----------------------------------------------------------------------------
(* The host's helpers the sensor calls.                                     *)

\* homeassistant.helpers.location.find_coordinates: the entity's coordinates
\* as "lat,long" when the host exposes them, None otherwise.
find_coordinates(st) == IF st = None THEN None ELSE st[1].coords

\* The location a resolution of the entity yields while its state is st.
LocationOf(st) ==
    IF st = None THEN {}
    ELSE IF st[1].coords # None THEN {st[1].coords[1]} ELSE {st[1].state}

-----------------------------------------------------------------------------
(* WazeTravelTimeData.update: filtering, selection, unit conversion.        *)

\* lines 239-244
InclFilter(rs, f) ==
    IF f = None THEN rs
    ELSE SelectSeq(rs, LAMBDA r : Contains(LowerStr(r.name), LowerStr(f[1])))

\* The exclude filter without its .lower() calls.
ExclFilterCaseSensitive(rs, f) ==
    IF f = None THEN rs
    ELSE SelectSeq(rs, LAMBDA r : ~Contains(r.name, f[1]))

\* lines 245-250
ExclFilter(rs, f) ==
    IF f = None THEN rs
    ELSE SelectSeq(rs, LAMBDA r : ~Contains(LowerStr(r.name), LowerStr(f[1])))

FilterRoutes(rs, o) == ExclFilter(InclFilter(rs, o.incl), o.excl)

\* The pick re-sorted by duration: the fastest route.
FastestRoute(rs) ==
    CHOOSE r \in {rs[i] : i \in 1..Len(rs)} :
        \A i \in 1..Len(rs) : r.duration <= rs[i].duration

\* line 252: list(routes)[0]
FirstRoute(rs) == rs[1]

\* line 260: distance / 1.609
ToMiles(d) == (d * 1000) \div 1609

\* lines 258-262
ConvertDistance(d, units) ==
    IF units = CONF_UNIT_SYSTEM_IMPERIAL THEN ToMiles(d) ELSE d

-----------------------------------------------------------------------------
(* WazeTravelTime's published properties.                                   *)

\* Python's round() of a duration given in tenths: half to even.
PyRound(d) ==
    LET q == d \div 10
        r == d % 10
    IN  IF r < 5 THEN q
        ELSE IF r > 5 THEN q + 1
        ELSE IF q % 2 = 0 THEN q ELSE q + 1

\* The test of line 149 on the duration's truth value.
native_value_truthy ==
    IF duration # None /\ duration[1] # 0 THEN Some(PyRound(duration[1])) ELSE None

\* lines 146-151
native_value == IF duration # None THEN Some(PyRound(duration[1])) ELSE None

\* lines 153-165
extra_state_attributes ==
    IF duration = None THEN None
    ELSE Some([attribution |-> "Powered by Waze",
               duration |-> duration, distance |-> distance, route |-> route,
               origin |-> origin, destination |-> destination])

-----------------------------------------------------------------------------
(* Construction: async_setup_entry, WazeTravelTimeData.__init__ and         *)
(* WazeTravelTime.__init__.                                                 *)

NoLocals(x) == [t \in Jobs |-> x]

\* lines 125-135 on the data object built at lines 92-97 (origin and destination
\* None, lines 203-204; duration, distance, route None, lines 207-209).
Construct(coreStates, optionSets) ==
    /\ coreState \in coreStates
    /\ listening = FALSE
    /\ added = FALSE
    /\ polling = FALSE
    /\ states \in {None} \cup {Some(st) : st \in EntityStates}
    /\ options \in optionSets
    /\ \E o \in {EntityId, OriginLiteral}, d \in {EntityId, DestinationLiteral} :
        /\ originEntityId = IF FullMatchEntityId(o) THEN Some(o) ELSE None
        /\ origin = IF FullMatchEntityId(o) THEN None ELSE Some(o)
        /\ destinationEntityId = IF FullMatchEntityId(d) THEN Some(d) ELSE None
        /\ destination = IF FullMatchEntityId(d) THEN None ELSE Some(d)
    /\ duration = None
    /\ distance = None
    /\ route = None
    /\ pc = NoLocals("idle")
    /\ found = NoLocals(None)
    /\ opts = NoLocals(NoOpts)
    /\ params = NoLocals(NoParams)
    /\ routes = NoLocals(<<>>)
    /\ selected = NoLocals(None)
    /\ served = NoParams
    /\ seen = NoLocals({})

data == <<origin, destination, duration, distance, route>>
reading == <<duration, distance, route>>
locals == <<found, opts, params, routes, selected>>
host == <<coreState, listening, added, polling, states, options>>
config == <<originEntityId, destinationEntityId>>

Goto(t, label) == pc' = [pc EXCEPT ![t] = label]

\* A job enters WazeTravelTime.update (line 172).
Begin(t) == Goto(t, "origin_if")

-----------------------------------------------------------------------------
(* The triggers.                                                            *)

\* lines 137-144.  When the host is running, async_added_to_hass awaits
\* first_update, which hands update to the executor (line 169).
async_added_to_hass ==
    /\ ~added
    /\ added' = TRUE
    /\ IF coreState # "running"
         THEN /\ listening' = TRUE
              /\ UNCHANGED pc
         ELSE /\ Begin("first")
              /\ UNCHANGED listening
    /\ UNCHANGED <<coreState, polling, states, options, config, data, locals>>

\* The host fires EVENT_HOMEASSISTANT_STARTED; a listen_once listener runs
\* first_update (lines 167-169).
HomeAssistantStarted ==
    /\ coreState = "not_running"
    /\ coreState' = "running"
    /\ listening' = FALSE
    /\ IF listening THEN Begin("first") ELSE UNCHANGED pc
    /\ UNCHANGED <<added, polling, states, options, config, data, locals>>

\* The host starts polling the entity once async_added_to_hass has returned.
StartPolling ==
    /\ added /\ ~polling
    /\ pc["first"] \in {"idle", "done"}
    /\ polling' = TRUE
    /\ UNCHANGED <<coreState, listening, added, states, options, config, data,
                   pc, locals>>

\* The host's periodic update of the entity: one at a time.
PollUpdate ==
    /\ polling
    /\ pc["poll"] = "idle"
    /\ Begin("poll")
    /\ UNCHANGED <<host, config, data, locals>>

\* The event loop changes the referenced entity's state.
SetEntityState ==
    /\ originEntityId # None \/ destinationEntityId # None
    /\ \E st \in ({None} \cup {Some(x) : x \in EntityStates}) \ {states} :
        states' = st
    /\ UNCHANGED <<coreState, listening, added, polling, options, config, data,
                   pc, locals>>

\* The options flow replaces config_entry.options.
UpdateOptions(optionSets) ==
    /\ \E o \in optionSets \ {options} : options' = o
    /\ UNCHANGED <<coreState, listening, added, polling, states, config, data,
                   pc, locals>>

-----------------------------------------------------------------------------
(* WazeTravelTime.update, lines 172-195, statement by statement.            *)

\* hass.states.get(entity_id).state, which raises AttributeError on None.
Resolved(t) ==
    IF found[t] # None THEN find_coordinates(states) ELSE Some(states[1].state)

\* lines 176-177: the `if` and the find_coordinates it tests.
OriginIf(t) ==
    /\ pc[t] = "origin_if"
    /\ IF originEntityId # None
         THEN /\ found' = [found EXCEPT ![t] = find_coordinates(states)]
              /\ Goto(t, "origin_set")
         ELSE /\ UNCHANGED found
              /\ Goto(t, "destination_if")
    /\ UNCHANGED <<host, config, data, opts, params, routes, selected>>

\* lines 178-184: the second lookup and the assignment.
OriginSet(t) ==
    /\ pc[t] = "origin_set"
    /\ found' = [found EXCEPT ![t] = None]
    /\ IF found[t] = None /\ states = None
         THEN /\ Goto(t, "attribute_error")
              /\ UNCHANGED origin
         ELSE /\ origin' = Resolved(t)
              /\ Goto(t, "destination_if")
    /\ UNCHANGED <<host, config, destination, reading, opts, params, routes, selected>>

\* lines 186-187
DestinationIf(t) ==
    /\ pc[t] = "destination_if"
    /\ IF destinationEntityId # None
         THEN /\ found' = [found EXCEPT ![t] = find_coordinates(states)]
              /\ Goto(t, "destination_set")
         ELSE /\ UNCHANGED found
              /\ Goto(t, "data_update")
    /\ UNCHANGED <<host, config, data, opts, params, routes, selected>>

\* lines 188-194
DestinationSet(t) ==
    /\ pc[t] = "destination_set"
    /\ found' = [found EXCEPT ![t] = None]
    /\ IF found[t] = None /\ states = None
         THEN /\ Goto(t, "attribute_error")
              /\ UNCHANGED destination
         ELSE /\ destination' = Resolved(t)
              /\ Goto(t, "data_update")
    /\ UNCHANGED <<host, config, origin, reading, opts, params, routes, selected>>

-----------------------------------------------------------------------------
(* WazeTravelTimeData.update, lines 211-269.                                *)

\* The guard of line 213 with `or` for `and`.
DataUpdateEither(t) ==
    /\ pc[t] = "data_update"
    /\ IF origin # None \/ destination # None
         THEN /\ opts' = [opts EXCEPT ![t] = options]
              /\ Goto(t, "call")
         ELSE /\ UNCHANGED opts
              /\ Goto(t, "skipped")
    /\ UNCHANGED <<host, config, data, found, params, routes, selected>>

\* line 195 into lines 213-225: the guard, then the options are grabbed.
DataUpdate(t) ==
    /\ pc[t] = "data_update"
    /\ IF origin # None /\ destination # None
         THEN /\ opts' = [opts EXCEPT ![t] = options]
              /\ Goto(t, "call")
         ELSE /\ UNCHANGED opts
              /\ Goto(t, "skipped")
    /\ UNCHANGED <<host, config, data, found, params, routes, selected>>

\* The handlers of lines 264-269 and 253-255 resetting the reading to None.
CallResetting(t, responses) ==
    /\ pc[t] = "call"
    /\ params' = [params EXCEPT ![t] = <<origin, destination>>]
    /\ \/ /\ \E e \in {"wrc_error", "key_error"} : Goto(t, e)
          /\ duration' = None /\ distance' = None /\ route' = None
          /\ UNCHANGED <<routes, selected>>
       \/ \E rs \in responses :
            LET filtered == FilterRoutes(rs, opts[t])
            IN  /\ routes' = [routes EXCEPT ![t] = rs]
                /\ IF filtered # <<>>
                     THEN /\ selected' = [selected EXCEPT ![t] = Some(FirstRoute(filtered))]
                          /\ Goto(t, "set_duration")
                          /\ UNCHANGED reading
                     ELSE /\ Goto(t, "no_routes")
                          /\ duration' = None /\ distance' = None /\ route' = None
                          /\ UNCHANGED selected
    /\ UNCHANGED <<host, config, origin, destination, found, opts>>

\* lines 227-255 and the handlers at 264-269: the routing call, which raises
\* WRCError or KeyError or returns the routes; then the filters and the pick.
Call(t, responses) ==
    /\ pc[t] = "call"
    /\ params' = [params EXCEPT ![t] = <<origin, destination>>]
    /\ \/ /\ \E e \in {"wrc_error", "key_error"} : Goto(t, e)
          /\ UNCHANGED <<routes, selected>>
       \/ \E rs \in responses :
            LET filtered == FilterRoutes(rs, opts[t])
            IN  /\ routes' = [routes EXCEPT ![t] = rs]
                /\ IF filtered # <<>>
                     THEN /\ selected' = [selected EXCEPT ![t] = Some(FirstRoute(filtered))]
                          /\ Goto(t, "set_duration")
                     ELSE /\ Goto(t, "no_routes")
                          /\ UNCHANGED selected
    /\ UNCHANGED <<host, config, data, found, opts>>

\* line 256: self.duration, distance = routes[route]
SetDuration(t) ==
    /\ pc[t] = "set_duration"
    /\ duration' = Some(selected[t][1].duration)
    /\ Goto(t, "set_distance")
    /\ UNCHANGED <<host, config, origin, destination, distance, route, locals>>

\* lines 258-262
SetDistance(t) ==
    /\ pc[t] = "set_distance"
    /\ distance' = Some(ConvertDistance(selected[t][1].distance, opts[t].units))
    /\ Goto(t, "set_route")
    /\ UNCHANGED <<host, config, origin, destination, duration, route, locals>>

\* line 263
SetRoute(t) ==
    /\ pc[t] = "set_route"
    /\ route' = Some(selected[t][1].name)
    /\ Goto(t, "committed")
    /\ UNCHANGED <<host, config, origin, destination, duration, distance, locals>>

Returned == {"committed", "skipped", "no_routes", "wrc_error", "key_error",
             "attribute_error"}

\* update has returned or raised: its locals are gone.  first_update then writes
\* the state (line 170) and is over; the poll waits for the next interval.
Return(t) ==
    /\ pc[t] \in Returned
    /\ Goto(t, IF t = "first" THEN "done" ELSE "idle")
    /\ opts' = [opts EXCEPT ![t] = NoOpts]
    /\ params' = [params EXCEPT ![t] = NoParams]
    /\ routes' = [routes EXCEPT ![t] = <<>>]
    /\ selected' = [selected EXCEPT ![t] = None]
    /\ UNCHANGED <<host, config, data, found>>

-----------------------------------------------------------------------------
(* History: which call the stored duration came from, and where the entity  *)
(* has been while a refresh was running.                                    *)

History ==
    /\ served' = IF \E t \in Jobs : pc[t] = "set_duration" /\ pc'[t] = "set_distance"
                   THEN params[CHOOSE t \in Jobs :
                                 pc[t] = "set_duration" /\ pc'[t] = "set_distance"]
                   ELSE served
    /\ seen' = [t \in Jobs |->
                  IF pc'[t] \in {"idle", "done"} THEN {}
                  ELSE seen[t] \cup LocationOf(states')]

NoHistory == UNCHANGED <<served, seen>>

-----------------------------------------------------------------------------
(* The specifications.                                                      *)

\* The sensor on a host that may still be starting when the entity is added:
\* first_update and the poll may overlap.
Init == Construct({"not_running", "running"}, {NoOpts})

Next ==
    \/ async_added_to_hass /\ NoHistory
    \/ HomeAssistantStarted /\ NoHistory
    \/ StartPolling /\ NoHistory
    \/ PollUpdate /\ NoHistory
    \/ SetEntityState /\ NoHistory
    \/ \E t \in Jobs :
        \/ OriginIf(t) /\ NoHistory
        \/ OriginSet(t) /\ NoHistory
        \/ DestinationIf(t) /\ NoHistory
        \/ DestinationSet(t) /\ NoHistory
        \/ DataUpdate(t) /\ NoHistory
        \/ Call(t, FewResponses) /\ NoHistory
        \/ SetDuration(t) /\ NoHistory
        \/ SetDistance(t) /\ NoHistory
        \/ SetRoute(t) /\ NoHistory
        \/ Return(t) /\ NoHistory

Spec == Init /\ [][Next]_vars

\* The sensor added to a running host: first_update is awaited, then the entity
\* is polled.  Every option set and every answer of the routing engine.
InitRunning == Construct({"running"}, OptionSets)

NextRunning ==
    \/ async_added_to_hass /\ NoHistory
    \/ StartPolling /\ NoHistory
    \/ PollUpdate /\ NoHistory
    \/ SetEntityState /\ NoHistory
    \/ UpdateOptions(OptionSets) /\ NoHistory
    \/ \E t \in Jobs :
        \/ OriginIf(t) /\ NoHistory
        \/ OriginSet(t) /\ NoHistory
        \/ DestinationIf(t) /\ NoHistory
        \/ DestinationSet(t) /\ NoHistory
        \/ DataUpdate(t) /\ NoHistory
        \/ Call(t, Responses) /\ NoHistory
        \/ SetDuration(t) /\ NoHistory
        \/ SetDistance(t) /\ NoHistory
        \/ SetRoute(t) /\ NoHistory
        \/ Return(t) /\ NoHistory

SpecRunning == InitRunning /\ [][NextRunning]_vars

\* The sensor added to a running host, with the history kept.
InitTraced == Construct({"running"}, {NoOpts})

NextTraced ==
    \/ async_added_to_hass /\ History
    \/ StartPolling /\ History
    \/ PollUpdate /\ History
    \/ SetEntityState /\ History
    \/ \E t \in Jobs :
        \/ OriginIf(t) /\ History
        \/ OriginSet(t) /\ History
        \/ DestinationIf(t) /\ History
        \/ DestinationSet(t) /\ History
        \/ DataUpdate(t) /\ History
        \/ Call(t, FewResponses) /\ History
        \/ SetDuration(t) /\ History
        \/ SetDistance(t) /\ History
        \/ SetRoute(t) /\ History
        \/ Return(t) /\ History

SpecTraced == InitTraced /\ [][NextTraced]_vars

-----------------------------------------------------------------------------
(* The claims.                                                              *)

Committing == {"set_duration", "set_distance", "set_route"}
Running(t) == pc[t] \notin {"idle", "done"} \cup Returned

\* What a refresh that picks route r under units u stores.
Reading(r, u) == <<Some(r.duration), Some(ConvertDistance(r.distance, u)), Some(r.name)>>

\* C1: in every state a reader can observe, duration, distance and route are
\* all None or all those of one route candidate: none of the three is updated
\* while another is not.
AtomicCommit ==
    \/ reading = <<None, None, None>>
    \/ \E r \in Routes, u \in {Metric, CONF_UNIT_SYSTEM_IMPERIAL} : reading = Reading(r, u)

\* C2: a refresh that does not commit (the routing call raises WRCError or
\* KeyError, or no route is left after the filters) returns from the call
\* with duration, distance and route as they were, and no statement of
\* update() outside the commit (lines 256-263) writes them.
StaleValuePolicy ==
    [][\A t \in Jobs :
         (pc'[t] # pc[t] /\ pc[t] \notin Committing) => reading' = reading]_vars

\* C2's case: after a committed refresh, a later one has failed and the
\* reading is still there.
StaleValueKept ==
    /\ pc["poll"] \in {"wrc_error", "key_error", "no_routes"}
    /\ reading = Reading(RouteA, Metric)

\* Whether a route name passes the filters o, by the definition of the filters.
Passes(r, o) ==
    /\ o.incl # None => Contains(LowerStr(r.name), LowerStr(o.incl[1]))
    /\ o.excl # None => ~Contains(LowerStr(r.name), LowerStr(o.excl[1]))

\* C3: the route a refresh selects contains the include filter it grabbed and
\* does not contain the exclude filter it grabbed, both case-insensitively.
FilterConformance ==
    \A t \in Jobs : selected[t] # None => Passes(selected[t][1], opts[t])

\* C3's case: a route is selected with both filters configured.
SelectedUnderBothFilters ==
    \E t \in Jobs :
        /\ selected[t] # None
        /\ opts[t].incl # None /\ opts[t].excl # None
        /\ Len(opts[t].incl[1]) > 0

\* C4: the selected route is the first entry of the engine's answer that
\* passes the filters, whatever the durations, and the commit writes that
\* entry's duration, its distance (as is when metric) and its name.
FirstMatchSelection ==
    /\ [](\A t \in Jobs : selected[t] # None =>
            \E i \in 1..Len(routes[t]) :
                /\ routes[t][i] = selected[t][1]
                /\ Passes(routes[t][i], opts[t])
                /\ \A j \in 1..(i - 1) : ~Passes(routes[t][j], opts[t]))
    /\ [][\A t \in Jobs :
            /\ (pc[t] = "set_duration" /\ pc'[t] # pc[t])
                  => duration' = Some(selected[t][1].duration)
            /\ (pc[t] = "set_distance" /\ pc'[t] # pc[t] /\ opts[t].units = Metric)
                  => distance' = Some(selected[t][1].distance)
            /\ (pc[t] = "set_route" /\ pc'[t] # pc[t])
                  => route' = Some(selected[t][1].name)]_vars

\* C4's case: the first route was committed although a later one is faster.
SlowerFirstRouteCommitted ==
    \E t \in Jobs :
        /\ pc[t] = "committed"
        /\ routes[t] = <<RouteA, RouteB>>
        /\ reading = Reading(RouteA, Metric)

\* C5: WazeTravelTimeData.update entered with origin or destination None
\* returns at once: no routing call, no change of the stored data, no error.
RefreshPrecondition ==
    /\ [](\A t \in Jobs : pc[t] = "skipped" => params[t] = NoParams /\ routes[t] = <<>>)
    /\ [][\A t \in Jobs :
            (pc[t] = "data_update" /\ pc'[t] # pc[t]
                /\ (origin = None \/ destination = None))
              => pc'[t] = "skipped" /\ data' = data /\ params' = params]_vars

\* C5's case: a refresh was skipped because an endpoint was None.
SkippedOnNone ==
    \E t \in Jobs : pc[t] = "skipped" /\ (origin = None \/ destination = None)

\* C6: a refresh whose entity endpoint has no state is skipped silently; it
\* never ends in an error.
UnresolvedSkippedSilently ==
    \A t \in Jobs : pc[t] # "attribute_error"

\* C7: native_value and extra_state_attributes are None from construction until
\* a refresh stores a duration; from then on both stay present whatever the
\* later refreshes do, and native_value is an integer nearest to the duration
\* last stored.
PublishedAvailability ==
    /\ native_value = None
    /\ []((native_value = None) <=> (extra_state_attributes = None))
    /\ [][/\ native_value # None => native_value' # None
          /\ \A t \in Jobs :
               (pc[t] = "set_duration" /\ pc'[t] # pc[t]) =>
                  /\ native_value' # None
                  /\ 10 * native_value'[1] - selected[t][1].duration \in -5..5
          /\ (\A t \in Jobs : pc[t] = "set_duration" => pc'[t] = pc[t])
                => native_value' = native_value]_vars

\* C7's case: a value is published from an earlier refresh after a later one
\* failed.
PublishedAfterFailure ==
    /\ native_value = Some(10)
    /\ extra_state_attributes # None
    /\ pc["poll"] \in {"wrc_error", "key_error", "no_routes", "skipped"}

\* C8: the origin and destination given to the routing call are, for an entity
\* endpoint, a location the entity had during that refresh, and for a literal
\* endpoint the configured literal.
FreshEndpoints ==
    \A t \in Jobs : params[t] # NoParams =>
        /\ IF originEntityId # None
             THEN params[t][1] \in {Some(l) : l \in seen[t]}
             ELSE params[t][1] = Some(OriginLiteral)
        /\ IF destinationEntityId # None
             THEN params[t][2] \in {Some(l) : l \in seen[t]}
             ELSE params[t][2] = Some(DestinationLiteral)

\* C9: at most one execution of WazeTravelTime.update is in flight.
SerializedRefreshes ==
    Cardinality({t \in Jobs : Running(t)}) <= 1

\* C10: whenever the attributes are published, their origin and destination
\* are those given to the routing call that produced the published duration;
\* stated for the states in which no update is running, as after a refresh
\* that failed.
ConsistentAttributes ==
    (extra_state_attributes # None /\ \A t \in Jobs : ~Running(t)) =>
        /\ extra_state_attributes[1].origin = served[1]
        /\ extra_state_attributes[1].destination = served[2]

====
